---- MODULE Spec2Model ----
(***************************************************************************)
(* A model of anari::ospray::Frame (src/Frame.cpp): the render target of   *)
(* the ANARI OSPRay device.  One Frame object, its single-threaded client, *)
(* the OSPRay engine behind the osp* calls, and the detached notification  *)
(* threads that Frame::render spawns.                                      *)
(*                                                                         *)
(* Handles are natural numbers; NULL is 0.  Frame buffer handles index     *)
(* fbs, task handles (OSPFuture) index tasks.                              *)
(***************************************************************************)
EXTENDS Integers, Sequences, FiniteSets, TLC

\* ------------------------------------------------------------------ bounds

\* The number of API calls the client makes on the frame in one run: of a
\* client that configures the frame and reads it back (Spec), of a client
\* that renders (SpecRender), and of a client that renders again while the
\* callback of its last render is running (SpecNotify).
MaxCalls == 4
MaxRenderCalls == 7
MaxNotifyCalls == 6

\* ------------------------------------------------------------ input domains

NULL == 0

\* Frame sizes the client sets: (width, height) as two uint32 values.
Sizes == {<<2, 3>>, <<4, 1>>}

\* ANARIDataType tags the client passes as the type of a parameter.
WrongType == "ANARI_INT32"

\* ANARIDataType values the client passes as the value of channel.* .
Formats == {"ANARI_UFIXED8_VEC4", "ANARI_FLOAT32_VEC4"}
ElementTypes == {"ANARI_FLOAT32_VEC3", "ANARI_FLOAT32"}

\* Scene objects, callbacks (function addresses), user-data pointers and
\* devices of the client.
SceneObjects == {1}
Callbacks == {1, 2}
UserPtrs == {1, 2}
Devices == {"devA", "devB"}

\* Names the client passes to setParam, getProperty and map that the frame
\* does not know.
OtherName == "name"

BareNames == {"color", "depth", "normal", "albedo"}
ChannelNames == {"channel.color", "channel.depth", "channel.normal", "channel.albedo"}
PropertyNames == {"duration", "progress", "variance"}

\* --------------------------------------------------------------- variables

VARIABLES
  frame,     \* the members of the Frame object
  refCount,  \* the intrusive reference count of the Frame
  clientRef, \* whether the client still holds its reference
  dtorRuns,  \* how many times ~Frame has run
  fbs,       \* engine: the frame buffers created, by handle
  tasks,     \* engine: the render tasks submitted, by handle
  pc,        \* where the client thread is: idle or blocked inside a call
  pend,      \* the arguments of the call the client is blocked in
  thr,       \* the notification threads spawned by render, in order
  ret,       \* the last call the client completed and what it observed
  budget,    \* how many more calls the client starts
  crashed    \* the process has died (null dereference, call of a null callback)

vars == <<frame, refCount, clientRef, dtorRuns, fbs, tasks, pc, pend, thr, ret,
          budget, crashed>>

\* ---------------------------------------------------------- pure functions

\* *((const int *)mem + offs): the uint32 the client wrote, read as an int.
\* Values up to INT_MAX keep their value; larger ones wrap to u - 2^32.
AsInt(u) == IF u <= 2147483647 THEN u ELSE ((u - 2147483647) - 2147483647) - 2

\* *width = m_size_x: the int member, converted to uint32_t.
\* Non-negative values keep their value; negative ones wrap to i + 2^32.
AsUint32(i) == IF i >= 0 THEN i ELSE ((i + 2147483647) + 2147483647) + 2

\* The legacy bare channel names are rewritten to their channel.* form.
CanonicalId(id) ==
  IF id = "color" THEN "channel.color"
  ELSE IF id = "depth" THEN "channel.depth"
  ELSE IF id = "normal" THEN "channel.normal"
  ELSE IF id = "albedo" THEN "channel.albedo"
  ELSE id

\* enumCast<OSPFrameBufferFormat>(m_format): the engine's name of the format.
enumCast(format) == format

\* The channel mask constructHandle asks the engine for.
BadChannels(f) ==
  {"OSP_FB_COLOR", "OSP_FB_ACCUM", "OSP_FB_VARIANCE", "OSP_FB_DEPTH"}
    \cup (IF f.m_normalBuffer THEN {"OSP_FB_NORMAL"} ELSE {})
    \cup (IF f.m_albedoBuffer THEN {"OSP_FB_ALBEDO"} ELSE {})
Channels(f) ==
  {"OSP_FB_COLOR", "OSP_FB_ACCUM", "OSP_FB_VARIANCE"}
    \cup (IF f.m_depthBuffer THEN {"OSP_FB_DEPTH"} ELSE {})
    \cup (IF f.m_normalBuffer THEN {"OSP_FB_NORMAL"} ELSE {})
    \cup (IF f.m_albedoBuffer THEN {"OSP_FB_ALBEDO"} ELSE {})

\* ------------------------------------------------------------------- Init

\* The members of a Frame after construction.
InitialFrame ==
  [m_size_x |-> 0, m_size_y |-> 0, m_format |-> "ANARI_UNKNOWN",
   m_depthBuffer |-> FALSE, m_normalBuffer |-> FALSE, m_albedoBuffer |-> FALSE,
   m_reconstructOnCommit |-> FALSE,
   m_renderer |-> NULL, m_camera |-> NULL, m_world |-> NULL,
   m_continuation |-> NULL, m_continuationPtr |-> NULL,
   m_object |-> NULL, m_future |-> NULL]

NoCall == [op |-> "none", id |-> "", type |-> "", val |-> NULL, res |-> "",
           out |-> <<>>, calls |-> <<>>]

\* The frame after construction, held by the client that created it.
Constructed ==
  /\ frame = InitialFrame
  /\ refCount = 1
  /\ clientRef = TRUE
  /\ dtorRuns = 0
  /\ fbs = <<>>
  /\ tasks = <<>>
  /\ pc = "idle"
  /\ pend = NoCall
  /\ thr = <<>>
  /\ ret = NoCall
  /\ crashed = FALSE

Init == Constructed /\ budget = MaxCalls

InitRender == Constructed /\ budget = MaxRenderCalls

\* The client may start a call on the frame.
ClientReady ==
  /\ pc = "idle"
  /\ clientRef
  /\ ~crashed
  /\ budget > 0

\* ---------------------------------------------------------------- setParam

\* The (type, value) pairs the client passes for parameter name id.
ParamInputs(id) ==
  LET cid == CanonicalId(id) IN
  {<<WrongType, NULL>>} \cup
  (IF cid = "size" THEN {<<"ANARI_UINT32_VEC2", s>> : s \in Sizes}
   ELSE IF cid = "channel.color" THEN {<<"ANARI_DATA_TYPE", v>> : v \in Formats}
   ELSE IF cid = "channel.depth" THEN {<<"ANARI_DATA_TYPE", "ANARI_FLOAT32">>}
   ELSE IF cid \in {"channel.albedo", "channel.normal"}
     THEN {<<"ANARI_DATA_TYPE", v>> : v \in ElementTypes}
   ELSE IF cid = "renderer" THEN {<<"ANARI_RENDERER", v>> : v \in SceneObjects}
   ELSE IF cid = "camera" THEN {<<"ANARI_CAMERA", v>> : v \in SceneObjects}
   ELSE IF cid = "world" THEN {<<"ANARI_WORLD", v>> : v \in SceneObjects}
   ELSE IF cid = "frameCompletionCallback"
     THEN {<<"ANARI_FRAME_COMPLETION_CALLBACK", v>> : v \in Callbacks \cup {NULL}}
   ELSE IF cid = "frameCompletionCallbackUserData"
     THEN {<<"ANARI_VOID_POINTER", v>> : v \in UserPtrs}
   ELSE {})

ParamNames ==
  {"size", "renderer", "camera", "world", "frameCompletionCallback",
   "frameCompletionCallbackUserData", OtherName} \cup BareNames \cup ChannelNames

\* Lines 94-97 and 99-102: albedo and normal are enabled for the element type
\* ANARI_FLOAT32_VEC3 only; any other throws before anything is assigned.
BadChannelTyped(f, enabled, val, error) ==
  [f |-> enabled, res |-> IF val = "ANARI_FLOAT32_VEC3" THEN "ok" ELSE error]
ChannelTyped(f, enabled, val, error) ==
  IF val = "ANARI_FLOAT32_VEC3"
    THEN [f |-> enabled, res |-> "ok"]
    ELSE [f |-> f, res |-> error]

\* What Frame::setParam(_id, type, mem) does to the members, and how it ends:
\* "ok", "delegated" (Object::setParam(_id, ...)) or a thrown error.
SetParamEffect(f, _id, type, val) ==
  LET id == CanonicalId(_id) IN
  IF id = "size" /\ type = "ANARI_UINT32_VEC2" THEN
    [f |-> [f EXCEPT !.m_size_x = AsInt(val[1]), !.m_size_y = AsInt(val[2]),
                     !.m_reconstructOnCommit = TRUE], res |-> "ok"]
  ELSE IF id = "channel.color" /\ type = "ANARI_DATA_TYPE" THEN
    [f |-> [f EXCEPT !.m_format = val, !.m_reconstructOnCommit = TRUE], res |-> "ok"]
  ELSE IF id = "channel.depth" /\ type = "ANARI_DATA_TYPE" THEN
    [f |-> [f EXCEPT !.m_depthBuffer = TRUE, !.m_reconstructOnCommit = TRUE],
     res |-> "ok"]
  ELSE IF id = "channel.albedo" /\ type = "ANARI_DATA_TYPE" THEN
    ChannelTyped(f, [f EXCEPT !.m_albedoBuffer = TRUE, !.m_reconstructOnCommit = TRUE],
                 val, "Unsupported albedo type.")
  ELSE IF id = "channel.normal" /\ type = "ANARI_DATA_TYPE" THEN
    ChannelTyped(f, [f EXCEPT !.m_normalBuffer = TRUE, !.m_reconstructOnCommit = TRUE],
                 val, "Unsupported normal type.")
  ELSE IF id = "renderer" /\ type = "ANARI_RENDERER" THEN
    [f |-> [f EXCEPT !.m_renderer = val], res |-> "ok"]
  ELSE IF id = "camera" /\ type = "ANARI_CAMERA" THEN
    [f |-> [f EXCEPT !.m_camera = val], res |-> "ok"]
  ELSE IF id = "world" /\ type = "ANARI_WORLD" THEN
    [f |-> [f EXCEPT !.m_world = val], res |-> "ok"]
  ELSE IF id = "frameCompletionCallback" /\ type = "ANARI_FRAME_COMPLETION_CALLBACK" THEN
    [f |-> [f EXCEPT !.m_continuation = val], res |-> "ok"]
  ELSE IF id = "frameCompletionCallbackUserData" /\ type = "ANARI_VOID_POINTER" THEN
    [f |-> [f EXCEPT !.m_continuationPtr = val], res |-> "ok"]
  ELSE [f |-> f, res |-> "delegated"]

\* Frame::setParam.  A delegated call hands the name as the client gave it
\* (_id, not the rewritten id) to Object::setParam.
SetParam(_id, type, val) ==
  /\ ClientReady
  /\ LET e == SetParamEffect(frame, _id, type, val) IN
       /\ frame' = e.f
       /\ ret' = [op |-> "setParam", id |-> _id, type |-> type, val |-> val,
                  res |-> e.res,
                  out |-> IF e.res = "delegated" THEN <<_id>> ELSE <<>>,
                  calls |-> <<>>]
  /\ budget' = budget - 1
  /\ UNCHANGED <<refCount, clientRef, dtorRuns, fbs, tasks, pc, pend, thr, crashed>>

\* ------------------------------------------------------------------ commit

\* Frame::constructHandle: the engine calls it makes, the engine's buffers
\* and the new m_object.  ok: whether ospNewFrameBuffer returns a buffer.
ReleaseFb(bufs, h) ==
  IF h = NULL THEN bufs ELSE [bufs EXCEPT ![h].live = FALSE]

BadConstructHandle(f, bufs, ok) ==
  LET released == bufs
      desc == [size_x |-> f.m_size_x, size_y |-> f.m_size_y,
               format |-> enumCast(f.m_format), channels |-> Channels(f),
               live |-> TRUE]
      calls == <<<<"ospRelease", "m_object", f.m_object>>,
                 <<"ospNewFrameBuffer", desc.size_x, desc.size_y, desc.format,
                   desc.channels>>>>
  IN IF ok
       THEN [fbs |-> Append(released, desc), m_object |-> Len(released) + 1,
             calls |-> calls]
       ELSE [fbs |-> released, m_object |-> NULL, calls |-> calls]
ConstructHandle(f, bufs, ok) ==
  LET released == ReleaseFb(bufs, f.m_object)
      desc == [size_x |-> f.m_size_x, size_y |-> f.m_size_y,
               format |-> enumCast(f.m_format), channels |-> Channels(f),
               live |-> TRUE]
      calls == <<<<"ospRelease", "m_object", f.m_object>>,
                 <<"ospNewFrameBuffer", desc.size_x, desc.size_y, desc.format,
                   desc.channels>>>>
  IN IF ok
       THEN [fbs |-> Append(released, desc), m_object |-> Len(released) + 1,
             calls |-> calls]
       ELSE [fbs |-> released, m_object |-> NULL, calls |-> calls]

\* Frame::commit.
BadCommitEffect(f, bufs, ok) ==
  LET c == ConstructHandle(f, bufs, ok) IN
    [f |-> [f EXCEPT !.m_object = c.m_object, !.m_reconstructOnCommit = FALSE],
     fbs |-> c.fbs, calls |-> c.calls]

BadCommitRetry(f, bufs, ok) ==
  IF f.m_reconstructOnCommit
    THEN LET c == ConstructHandle(f, bufs, ok) IN
           [f |-> [f EXCEPT !.m_object = c.m_object,
                            !.m_reconstructOnCommit = c.m_object = NULL],
            fbs |-> c.fbs, calls |-> c.calls]
    ELSE [f |-> f, fbs |-> bufs, calls |-> <<>>]

CommitEffect(f, bufs, ok) ==
  IF f.m_reconstructOnCommit
    THEN LET c == ConstructHandle(f, bufs, ok) IN
           [f |-> [f EXCEPT !.m_object = c.m_object, !.m_reconstructOnCommit = FALSE],
            fbs |-> c.fbs, calls |-> c.calls]
    ELSE [f |-> f, fbs |-> bufs, calls |-> <<>>]

Commit(ok) ==
  /\ ClientReady
  /\ LET e == CommitEffect(frame, fbs, ok) IN
       /\ frame' = e.f
       /\ fbs' = e.fbs
       /\ ret' = [op |-> "commit", id |-> "", type |-> "", val |-> frame.m_object,
                  res |-> "ok", out |-> <<>>, calls |-> e.calls]
  /\ budget' = budget - 1
  /\ UNCHANGED <<refCount, clientRef, dtorRuns, tasks, pc, pend, thr, crashed>>

\* ------------------------------------------------------- reference counting

\* ~Frame releases the task handle; the base object's teardown releases the
\* buffer handle.
\* ospRelease of a task handle (a null handle is ignored); rel counts the
\* releases the engine has seen of it.
BadReleaseTask(ts, h) == ts
ReleaseTask(ts, h) ==
  IF h = NULL THEN ts ELSE [ts EXCEPT ![h].live = FALSE, ![h].rel = @ + 1]

Destructor ==
  /\ dtorRuns' = dtorRuns + 1
  /\ tasks' = ReleaseTask(tasks, frame.m_future)
  /\ fbs' = ReleaseFb(fbs, frame.m_object)

\* refDec: the count drops by one and the object is deleted when it reaches 0.
RefDec ==
  /\ refCount' = refCount - 1
  /\ IF refCount - 1 = 0 THEN Destructor ELSE UNCHANGED <<dtorRuns, tasks, fbs>>

\* The client releases its handle of the frame.
Release ==
  /\ ClientReady
  /\ budget' = budget - 1
  /\ clientRef' = FALSE
  /\ RefDec
  /\ ret' = [NoCall EXCEPT !.op = "release"]
  /\ UNCHANGED <<frame, pc, pend, thr, crashed>>

\* ------------------------------------------------------------------ render

\* The engine finishes a render task.
TaskComplete(t) ==
  /\ ~crashed
  /\ ~tasks[t].done
  /\ tasks' = [tasks EXCEPT ![t].done = TRUE]
  /\ UNCHANGED <<frame, refCount, clientRef, dtorRuns, fbs, pc, pend, thr, ret,
                 budget, crashed>>

\* Lines 121-130 of Frame::render: the engine calls up to the submission.
BadRenderCalls(f, modified) ==
  <<<<"ospRelease", "m_future", f.m_future>>,
    <<"ospResetAccumulation", f.m_object>>>>
RenderCalls(f, modified) ==
  <<<<"ospRelease", "m_future", f.m_future>>>>
    \o (IF modified THEN <<<<"ospResetAccumulation", f.m_object>>>> ELSE <<>>)

\* Whether render blocks in ospWait after the submission.
BadRenderWaits(f) == FALSE
RenderWaits(f) == f.m_continuation # NULL

\* Frame::render(_d) up to its return or to the ospWait it blocks in, as one
\* step: for a client whose callbacks do not touch the frame, nothing reads
\* m_future or the engine's tasks between lines 123 and 127.
\* modified: what d->isModified() answers.
\* out: <<the callback registered, the task submitted, whether the task had
\* completed at the return, modified>>.
Render(_d, modified) ==
  /\ ClientReady
  /\ budget' = budget - 1
  /\ IF frame.m_renderer = NULL \/ frame.m_camera = NULL \/ frame.m_world = NULL
       THEN \* m_renderer->handleAs() on a null IntrusivePtr
            /\ crashed' = TRUE
            /\ tasks' = ReleaseTask(tasks, frame.m_future)
            /\ ret' = [op |-> "render", id |-> "", type |-> "", val |-> _d,
                       res |-> "crashed", out |-> <<>>,
                       calls |-> RenderCalls(frame, modified)]
            /\ UNCHANGED <<frame, pc, pend>>
       ELSE LET t == Len(tasks) + 1
                calls == RenderCalls(frame, modified)
                           \o <<<<"ospRenderFrame", frame.m_object, frame.m_renderer,
                                  frame.m_camera, frame.m_world>>>>
            IN /\ tasks' = Append(ReleaseTask(tasks, frame.m_future),
                                  [done |-> FALSE, live |-> TRUE,
                                   fb |-> frame.m_object, rel |-> 0])
               /\ frame' = [frame EXCEPT !.m_future = t]
               /\ crashed' = FALSE
               /\ IF RenderWaits(frame)
                    THEN /\ pc' = "render"
                         /\ pend' = [op |-> "render", id |-> "", type |-> "",
                                     val |-> _d, res |-> "",
                                     out |-> <<modified>>, calls |-> calls]
                         /\ ret' = ret
                    ELSE /\ ret' = [op |-> "render", id |-> "", type |-> "",
                                    val |-> _d, res |-> "returned",
                                    out |-> <<frame.m_continuation, t, FALSE,
                                              modified>>,
                                    calls |-> calls]
                         /\ UNCHANGED <<pc, pend>>
  /\ UNCHANGED <<refCount, clientRef, dtorRuns, fbs, thr>>

\* The notification thread render spawns: its captures (this, f, _d) and,
\* for the record, what was registered and submitted when it was spawned.
NewThread(f, _d) ==
  [pc |-> "start", d |-> _d, task |-> f.m_future,
   d0 |-> _d, cb0 |-> f.m_continuation, ptr0 |-> f.m_continuationPtr,
   fn |-> NULL, args |-> <<>>, q |-> <<>>]

\* f->refInc(): the reference render takes for the thread it spawns.
BadRefInc(count) == count
RefInc(count) == count + 1

\* Lines 133-140: ospWait has returned; refInc, spawn the detached thread,
\* return.
RenderNotify ==
  /\ pc = "render"
  /\ ~crashed
  /\ tasks[frame.m_future].done
  /\ refCount' = RefInc(refCount)
  /\ thr' = Append(thr, NewThread(frame, pend.val))
  /\ ret' = [pend EXCEPT !.res = "returned",
                         !.out = <<frame.m_continuation, frame.m_future,
                                  tasks[frame.m_future].done, pend.out[1]>>,
                         !.calls = pend.calls \o <<<<"ospWait", frame.m_future>>>>]
  /\ pc' = "idle"
  /\ pend' = NoCall
  /\ UNCHANGED <<frame, clientRef, dtorRuns, fbs, tasks, budget, crashed>>

\* ----------------------------------------------------- notification thread

\* What the thread calls: the lambda captures this, so m_continuation is read
\* from the frame when the thread runs.
ThreadFn(i) == frame.m_continuation

\* The user-data argument: m_continuationPtr, read the same way.
ThreadPtr(i) == frame.m_continuationPtr

\* Frame::render in two steps, for a client that renders while the callback of
\* an earlier render runs on its thread: line 123 releases the task handle
\* held so far and leaves it in m_future ...
RenderRelease(_d, modified) ==
  /\ ClientReady
  /\ budget' = budget - 1
  /\ tasks' = ReleaseTask(tasks, frame.m_future)
  /\ pc' = "submit"
  /\ pend' = [op |-> "render", id |-> "", type |-> "", val |-> _d, res |-> "",
              out |-> <<modified>>, calls |-> RenderCalls(frame, modified)]
  /\ UNCHANGED <<frame, refCount, clientRef, dtorRuns, fbs, thr, ret, crashed>>

\* ... and lines 125-132 submit the new task and store its handle; render
\* then returns or blocks in ospWait.
RenderSubmit ==
  /\ pc = "submit"
  /\ ~crashed
  /\ IF frame.m_renderer = NULL \/ frame.m_camera = NULL \/ frame.m_world = NULL
       THEN /\ crashed' = TRUE
            /\ ret' = [pend EXCEPT !.res = "crashed", !.out = <<>>]
            /\ pc' = "idle"
            /\ pend' = NoCall
            /\ UNCHANGED <<frame, tasks>>
       ELSE LET t == Len(tasks) + 1
                calls == pend.calls
                           \o <<<<"ospRenderFrame", frame.m_object, frame.m_renderer,
                                  frame.m_camera, frame.m_world>>>>
            IN /\ tasks' = Append(tasks, [done |-> FALSE, live |-> TRUE,
                                          fb |-> frame.m_object, rel |-> 0])
               /\ frame' = [frame EXCEPT !.m_future = t]
               /\ crashed' = FALSE
               /\ IF RenderWaits(frame)
                    THEN /\ pc' = "render"
                         /\ pend' = [pend EXCEPT !.calls = calls]
                         /\ ret' = ret
                    ELSE /\ pc' = "idle"
                         /\ pend' = NoCall
                         /\ ret' = [pend EXCEPT
                                      !.res = "returned",
                                      !.out = <<frame.m_continuation, t, FALSE,
                                                pend.out[1]>>,
                                      !.calls = calls]
  /\ UNCHANGED <<refCount, clientRef, dtorRuns, fbs, thr, budget>>

\* The thread evaluates the callee, m_continuation.
ThreadLoad(i) ==
  /\ ~crashed
  /\ thr[i].pc = "start"
  /\ thr' = [thr EXCEPT ![i].pc = "loaded", ![i].fn = ThreadFn(i)]
  /\ UNCHANGED <<frame, refCount, clientRef, dtorRuns, fbs, tasks, pc, pend, ret,
                 budget, crashed>>

\* The thread evaluates the arguments and calls m_continuation(m_continuationPtr,
\* _d, (ANARIFrame)this); a null function pointer ends the process.
ThreadCall(i) ==
  /\ ~crashed
  /\ thr[i].pc = "loaded"
  /\ IF thr[i].fn = NULL
       THEN /\ crashed' = TRUE
            /\ thr' = [thr EXCEPT ![i].pc = "crashed"]
       ELSE /\ crashed' = FALSE
            /\ thr' = [thr EXCEPT ![i].pc = "called",
                                  ![i].args = <<ThreadPtr(i), thr[i].d, "this",
                                                tasks[thr[i].task].done>>]
  /\ UNCHANGED <<frame, refCount, clientRef, dtorRuns, fbs, tasks, pc, pend, ret,
                 budget>>

\* f->refDec() at the end of the thread.
ThreadRefDec(i) ==
  /\ ~crashed
  /\ thr[i].pc = "called"
  /\ thr' = [thr EXCEPT ![i].pc = "done"]
  /\ RefDec
  /\ UNCHANGED <<frame, clientRef, pc, pend, ret, budget, crashed>>

\* ------------------------------------------------------------- getProperty

\* Whether Frame::getProperty answers the query itself (lines 24, 32, 40)
\* instead of handing it to Object::getProperty (line 48).
FrameAnswers(f, name, type) ==
  /\ name \in PropertyNames
  /\ type = "ANARI_FLOAT32"
  /\ f.m_future # NULL

\* Whether the query blocks in ospWait(m_future) before it reads the value.
BadPropertyWaits(wait) == FALSE
PropertyWaits(wait) == wait

\* The engine call that reads the value.
PropertyCall(f, name) ==
  IF name = "duration" THEN <<"ospGetTaskDuration", f.m_future>>
  ELSE IF name = "progress" THEN <<"ospGetProgress", f.m_future>>
  ELSE <<"ospGetVariance", f.m_object>>

\* Frame::getProperty(name, type, ptr, flags) up to its return or to the
\* ospWait it blocks in.  wait: flags & ANARI_WAIT.
\* out: <<who answered, whether the task had completed at the return, the
\* task handle the query found>>.
GetProperty(name, type, wait) ==
  /\ ClientReady
  /\ budget' = budget - 1
  /\ LET call == [op |-> "getProperty", id |-> name, type |-> type, val |-> wait,
                  res |-> "", out |-> <<>>, calls |-> <<>>]
     IN IF FrameAnswers(frame, name, type)
          THEN IF PropertyWaits(wait)
                 THEN /\ pc' = "getProperty"
                      /\ pend' = call
                      /\ ret' = ret
                 ELSE /\ ret' = [call EXCEPT
                                   !.res = "true",
                                   !.out = <<"Frame", tasks[frame.m_future].done,
                                             frame.m_future>>,
                                   !.calls = <<PropertyCall(frame, name)>>]
                      /\ UNCHANGED <<pc, pend>>
          ELSE /\ ret' = [call EXCEPT !.res = "Object::getProperty",
                                      !.out = <<"Object", FALSE, frame.m_future>>]
               /\ UNCHANGED <<pc, pend>>
  /\ UNCHANGED <<frame, refCount, clientRef, dtorRuns, fbs, tasks, thr, crashed>>

\* ospWait(m_future) has returned: read the value and return.
GetPropertyReturn ==
  /\ pc = "getProperty"
  /\ ~crashed
  /\ tasks[frame.m_future].done
  /\ ret' = [pend EXCEPT !.res = "true",
                         !.out = <<"Frame", tasks[frame.m_future].done,
                                   frame.m_future>>,
                         !.calls = <<<<"ospWait", frame.m_future>>,
                                     PropertyCall(frame, pend.id)>>]
  /\ pc' = "idle"
  /\ pend' = NoCall
  /\ UNCHANGED <<frame, refCount, clientRef, dtorRuns, fbs, tasks, thr, budget,
                 crashed>>

\* The callback, running on the thread with the frame's handle, queries a
\* property of the frame without the wait flag: Frame::getProperty reads
\* m_future and hands it (for variance, m_object) to the engine.
\* q: <<the engine call, whether the task handle read was unreleased>>.
ThreadQuery(i, name) ==
  /\ ~crashed
  /\ thr[i].pc = "called"
  /\ thr[i].q = <<>>
  /\ thr' = [thr EXCEPT ![i].q =
               IF FrameAnswers(frame, name, "ANARI_FLOAT32")
                 THEN <<PropertyCall(frame, name), tasks[frame.m_future].live>>
                 ELSE <<<<"Object::getProperty", name>>, TRUE>>]
  /\ UNCHANGED <<frame, refCount, clientRef, dtorRuns, fbs, tasks, pc, pend, ret,
                 budget, crashed>>

\* -------------------------------------------------------------- map, unmap

\* The pointer the engine returns for a channel of a buffer.
MappedPtr(fbh, flag) == <<fbh, flag>>

\* What Frame::map(_channel, width, height, pixelType) returns and writes:
\* ptr (<<>> is the null pointer), the out-parameters it wrote, and the
\* engine calls it makes.  pixelType is left unwritten for an unknown name.
BadMapEffect(f, _channel) ==
  LET channel == CanonicalId(_channel)
      flag == IF channel = "channel.depth" THEN "OSP_FB_DEPTH"
              ELSE IF channel = "channel.albedo" THEN "OSP_FB_ALBEDO"
              ELSE IF channel = "channel.normal" THEN "OSP_FB_NORMAL"
              ELSE "OSP_FB_COLOR"
      pixelType == IF flag = "OSP_FB_COLOR" THEN f.m_format
                   ELSE IF flag = "OSP_FB_DEPTH" THEN "ANARI_FLOAT32"
                   ELSE "ANARI_FLOAT32_VEC3"
  IN [ptr |-> MappedPtr(f.m_object, flag),
      out |-> <<AsUint32(f.m_size_x), AsUint32(f.m_size_y), pixelType>>,
      calls |-> <<<<"ospMapFrameBuffer", f.m_object, flag>>>>]
BadMapDisabled(f, _channel) ==
  LET channel == CanonicalId(_channel)
      flag == IF channel = "channel.color" THEN "OSP_FB_COLOR"
              ELSE IF channel = "channel.depth" /\ f.m_depthBuffer THEN "OSP_FB_DEPTH"
              ELSE IF channel = "channel.albedo" THEN "OSP_FB_ALBEDO"
              ELSE IF channel = "channel.normal" THEN "OSP_FB_NORMAL"
              ELSE ""
      pixelType == IF channel = "channel.color" THEN f.m_format
                   ELSE IF channel = "channel.depth" THEN "ANARI_FLOAT32"
                   ELSE "ANARI_FLOAT32_VEC3"
  IN IF flag # ""
       THEN [ptr |-> MappedPtr(f.m_object, flag),
             out |-> <<AsUint32(f.m_size_x), AsUint32(f.m_size_y), pixelType>>,
             calls |-> <<<<"ospMapFrameBuffer", f.m_object, flag>>>>]
       ELSE [ptr |-> <<>>,
             out |-> <<AsUint32(f.m_size_x), AsUint32(f.m_size_y)>>,
             calls |-> <<>>]
MapEffect(f, _channel) ==
  LET channel == CanonicalId(_channel)
      flag == IF channel = "channel.color" THEN "OSP_FB_COLOR"
              ELSE IF channel = "channel.depth" THEN "OSP_FB_DEPTH"
              ELSE IF channel = "channel.albedo" THEN "OSP_FB_ALBEDO"
              ELSE IF channel = "channel.normal" THEN "OSP_FB_NORMAL"
              ELSE ""
      pixelType == IF channel = "channel.color" THEN f.m_format
                   ELSE IF channel = "channel.depth" THEN "ANARI_FLOAT32"
                   ELSE "ANARI_FLOAT32_VEC3"
  IN IF flag # ""
       THEN [ptr |-> MappedPtr(f.m_object, flag),
             out |-> <<AsUint32(f.m_size_x), AsUint32(f.m_size_y), pixelType>>,
             calls |-> <<<<"ospMapFrameBuffer", f.m_object, flag>>>>]
       ELSE [ptr |-> <<>>,
             out |-> <<AsUint32(f.m_size_x), AsUint32(f.m_size_y)>>,
             calls |-> <<>>]

MapNames == BareNames \cup ChannelNames \cup {OtherName, "variance"}

\* Frame::map.
Map(_channel) ==
  /\ ClientReady
  /\ budget' = budget - 1
  /\ LET e == MapEffect(frame, _channel) IN
       ret' = [op |-> "map", id |-> _channel, type |-> "", val |-> e.ptr,
               res |-> IF e.ptr = <<>> THEN "nullptr" ELSE "pointer",
               out |-> e.out, calls |-> e.calls]
  /\ UNCHANGED <<frame, refCount, clientRef, dtorRuns, fbs, tasks, pc, pend, thr, crashed>>

\* Frame::unmap(ptr).
Unmap(ptr) ==
  /\ ClientReady
  /\ budget' = budget - 1
  /\ ret' = [op |-> "unmap", id |-> "", type |-> "", val |-> ptr, res |-> "",
             out |-> <<>>,
             calls |-> <<<<"ospUnmapFrameBuffer", ptr, frame.m_object>>>>]
  /\ UNCHANGED <<frame, refCount, clientRef, dtorRuns, fbs, tasks, pc, pend, thr,
                 crashed>>

\* ------------------------------------------------------------ specification

\* The calls of a client that configures the frame and reads it back.
Next ==
  \/ \E id \in ParamNames : \E tv \in ParamInputs(id) : SetParam(id, tv[1], tv[2])
  \/ \E ok \in BOOLEAN : Commit(ok)
  \/ \E name \in PropertyNames \cup {OtherName} :
       \E type \in {"ANARI_FLOAT32", WrongType} : \E wait \in BOOLEAN :
         GetProperty(name, type, wait)
  \/ \E c \in MapNames : Map(c)
  \/ Unmap(MappedPtr(frame.m_object, "OSP_FB_COLOR"))
  \/ Release

Spec == Init /\ [][Next]_vars

\* The calls of a client that renders, with the engine and the notification
\* threads running beside it.
RenderParamNames ==
  {"size", "renderer", "camera", "world", "frameCompletionCallback",
   "frameCompletionCallbackUserData", "channel.depth", "channel.albedo",
   "channel.normal"}

RenderMapNames == {"channel.color", "channel.depth"}

NextRender ==
  \/ \E id \in RenderParamNames :
       \E tv \in ParamInputs(id) \ {<<WrongType, NULL>>} : SetParam(id, tv[1], tv[2])
  \/ Commit(TRUE)
  \/ \E d \in Devices : \E modified \in BOOLEAN : Render(d, modified)
  \/ RenderNotify
  \/ \E name \in PropertyNames : \E wait \in BOOLEAN :
       GetProperty(name, "ANARI_FLOAT32", wait)
  \/ GetPropertyReturn
  \/ \E c \in RenderMapNames : Map(c)
  \/ Unmap(MappedPtr(frame.m_object, "OSP_FB_COLOR"))
  \/ Release
  \/ \E t \in DOMAIN tasks : TaskComplete(t)
  \/ \E i \in DOMAIN thr : ThreadLoad(i)
  \/ \E i \in DOMAIN thr : ThreadCall(i)
  \/ \E i \in DOMAIN thr : ThreadRefDec(i)

SpecRender == InitRender /\ [][NextRender]_vars

\* The calls of a client that renders again while the callback of the last
\* render may still be running and querying the frame.
InitNotify == Constructed /\ budget = MaxNotifyCalls

NotifyParamNames == {"renderer", "camera", "world", "frameCompletionCallback"}

NextNotify ==
  \/ \E id \in NotifyParamNames :
       \E tv \in ParamInputs(id) \ {<<WrongType, NULL>>} : SetParam(id, tv[1], tv[2])
  \/ \E d \in Devices : \E modified \in BOOLEAN : RenderRelease(d, modified)
  \/ RenderSubmit
  \/ RenderNotify
  \/ Release
  \/ \E t \in DOMAIN tasks : TaskComplete(t)
  \/ \E i \in DOMAIN thr : ThreadLoad(i)
  \/ \E i \in DOMAIN thr : ThreadCall(i)
  \/ \E i \in DOMAIN thr : \E name \in PropertyNames : ThreadQuery(i, name)
  \/ \E i \in DOMAIN thr : ThreadRefDec(i)

SpecNotify == InitNotify /\ [][NextNotify]_vars

\* ------------------------------------------------------------------ claims

\* A step in which the client starts (and, unless it blocks, completes) a call.
CallStep == budget' = budget - 1

\* C1: a commit that directly follows a commit, with no setParam between
\* them, reconstructs nothing: it makes no engine call (no release, no
\* create), and the buffer handle and the engine's buffers are the same
\* before and after it.
C1_SecondCommitKeepsBuffer ==
  [][(CallStep /\ ret.op = "commit" /\ ret'.op = "commit")
       => /\ ret'.calls = <<>>
          /\ frame'.m_object = frame.m_object
          /\ fbs' = fbs]_vars

\* C1 witness: setParam, commit, commit: the second commit has returned
\* without an engine call and the buffer of the first is still held.
C1_Witness ==
  /\ budget = MaxCalls - 3
  /\ ret.op = "commit"
  /\ ret.calls = <<>>
  /\ frame.m_object # NULL
  /\ fbs[frame.m_object].live

\* The channel mask the claims expect for the enable flags of frame f.
ExpectedMask(f) ==
  {"OSP_FB_COLOR", "OSP_FB_ACCUM", "OSP_FB_VARIANCE"}
    \cup {c \in {"OSP_FB_DEPTH", "OSP_FB_NORMAL", "OSP_FB_ALBEDO"} :
            \/ c = "OSP_FB_DEPTH" /\ f.m_depthBuffer
            \/ c = "OSP_FB_NORMAL" /\ f.m_normalBuffer
            \/ c = "OSP_FB_ALBEDO" /\ f.m_albedoBuffer}

C3_BadElementTypeRejected ==
  [][(CallStep /\ ret'.op = "setParam"
        /\ ret'.id \in {"channel.albedo", "albedo", "channel.normal", "normal"}
        /\ ret'.type = "ANARI_DATA_TYPE" /\ ret'.val # "ANARI_FLOAT32_VEC3")
       => /\ ret'.res = IF ret'.id \in {"channel.albedo", "albedo"}
                          THEN "Unsupported albedo type."
                          ELSE "Unsupported normal type."
          /\ frame'.m_albedoBuffer = frame.m_albedoBuffer
          /\ frame'.m_normalBuffer = frame.m_normalBuffer
          /\ frame'.m_reconstructOnCommit = frame.m_reconstructOnCommit
          /\ frame' = frame
          /\ fbs' = fbs]_vars

\* C3 witness: after a commit, the bare name albedo with a wrong element type
\* has ended in the error; the albedo channel is not enabled and no rebuild
\* is pending.
C3_Witness ==
  /\ ret.op = "setParam"
  /\ ret.id = "albedo"
  /\ ret.res = "Unsupported albedo type."
  /\ frame.m_object # NULL
  /\ ~frame.m_albedoBuffer
  /\ ~frame.m_reconstructOnCommit

\* C9: a float-typed variance query on a frame whose buffer a commit has
\* constructed and on which render was never called (no task handle) is
\* answered by the frame itself, from the buffer handle, with success; it is
\* not handed to Object::getProperty.
C9_VarianceWithoutTask ==
  (/\ ret.op = "getProperty"
   /\ ret.id = "variance"
   /\ ret.type = "ANARI_FLOAT32"
   /\ frame.m_object # NULL
   /\ ret.out[3] = NULL)
    => /\ ret.out[1] = "Frame"
       /\ ret.res = "true"
       /\ ret.calls = <<<<"ospGetVariance", frame.m_object>>>>

\* C10: map of a name that is none of color, depth, albedo, normal and their
\* channel. forms returns the null pointer, makes no engine call and leaves
\* every member of the frame, the engine's buffers and tasks and the
\* reference count as they were.
C10_MapUnknownChannel ==
  [][(CallStep /\ ret'.op = "map"
        /\ ret'.id \notin {"color", "depth", "albedo", "normal", "channel.color",
                           "channel.depth", "channel.albedo", "channel.normal"})
       => /\ ret'.res = "nullptr"
          /\ ret'.val = <<>>
          /\ ret'.calls = <<>>
          /\ frame' = frame
          /\ fbs' = fbs
          /\ tasks' = tasks
          /\ refCount' = refCount]_vars

\* C10 witness: on a frame that holds a buffer, map of an unknown name has
\* returned the null pointer.
C10_Witness ==
  /\ ret.op = "map"
  /\ ret.id = OtherName
  /\ ret.res = "nullptr"
  /\ frame.m_object # NULL
  /\ fbs[frame.m_object].live

\* Whether the engine calls of the last call include an ospWait.
Waited == \E k \in DOMAIN ret.calls : ret.calls[k][1] = "ospWait"

\* C4: every render made while a completion callback is registered leads to
\* exactly one invocation of the callback for that render, never before the
\* task of that render has completed; a render made with no callback
\* registered leads to none.  As a state predicate: a returned render has a
\* notification thread exactly if a callback was registered, no two threads
\* belong to one render, an invocation finds its task completed, and the call
\* a thread makes is an invocation of a callback (it does not end the process
\* without one).
C4_OneInvocationPerRender ==
  /\ (ret.op = "render" /\ ret.res = "returned")
       => (ret.out[1] # NULL <=> \E i \in DOMAIN thr : thr[i].task = ret.out[2])
  /\ \A i, j \in DOMAIN thr : thr[i].task = thr[j].task => i = j
  /\ \A i \in DOMAIN thr :
       /\ thr[i].cb0 # NULL
       /\ thr[i].pc \in {"called", "done"} => thr[i].args[4]
       /\ thr[i].pc # "crashed"

\* C5: the frame is not destroyed while a notification thread has not yet
\* finished (called the callback and released its reference), whenever the
\* client drops its own reference after render returned: until then the
\* reference count is above zero and ~Frame has not run; ~Frame runs at most
\* once.
C5_AliveUntilNotified ==
  /\ dtorRuns <= 1
  /\ \A i \in DOMAIN thr :
       thr[i].pc # "done" => (dtorRuns = 0 /\ refCount > 0)

\* C5 witness: the client has dropped its reference while the thread is
\* inside the callback; the thread's reference keeps the frame alive.
C5_Witness ==
  /\ ~clientRef
  /\ \E i \in DOMAIN thr : thr[i].pc = "called"
  /\ refCount = 1
  /\ dtorRuns = 0

\* C6: the callback a notification thread invokes is the one registered when
\* its render was called, and it receives the user-data pointer registered
\* at that time, the device handle passed to that render, and the frame's
\* own handle.
C6_CallbackAsRegistered ==
  \A i \in DOMAIN thr :
    thr[i].pc \in {"called", "done"}
      => /\ thr[i].fn = thr[i].cb0
         /\ thr[i].args[1] = thr[i].ptr0
         /\ thr[i].args[2] = thr[i].d0
         /\ thr[i].args[3] = "this"

\* C7: render blocks on the completion of its task exactly if a completion
\* callback is registered: it is blocked only with a callback, a returned
\* render has waited exactly if a callback was registered, and with a
\* callback the task has completed when render returns.
C7_RenderBlocksIffCallback ==
  /\ pc = "render" => frame.m_continuation # NULL
  /\ (ret.op = "render" /\ ret.res = "returned")
       => /\ Waited <=> ret.out[1] # NULL
          /\ ret.out[1] # NULL => ret.out[3]

\* C7 witness: a render with no callback has returned and its task is still
\* incomplete.
C7_Witness ==
  /\ ret.op = "render"
  /\ ret.res = "returned"
  /\ ret.out[1] = NULL
  /\ ~Waited
  /\ frame.m_future = ret.out[2]
  /\ ~tasks[frame.m_future].done

\* C8: a float query of duration, progress or variance made while a task
\* handle exists is answered by the frame; with the wait flag it waits and
\* returns only after the current task has completed, without the flag it
\* returns without waiting.
C8_WaitFlagDecides ==
  /\ pc = "getProperty" => pend.val
  /\ (ret.op = "getProperty" /\ ret.id \in {"duration", "progress", "variance"}
        /\ ret.type = "ANARI_FLOAT32" /\ ret.out[3] # NULL)
       => /\ ret.out[1] = "Frame"
          /\ Waited <=> ret.val
          /\ ret.val => ret.out[2]

\* C8 witness: a query with the wait flag has returned after its task
\* completed, and one without the flag is possible before that (the task of a
\* render with no callback was incomplete when render returned).
C8_Witness ==
  /\ ret.op = "getProperty"
  /\ ret.val
  /\ Waited
  /\ ret.out = <<"Frame", TRUE, frame.m_future>>
  /\ frame.m_continuation = NULL

\* The channel. form of a bare channel name.
Namespaced(b) == "channel." \o b

\* C11: setParam of a bare name b of color, depth, normal, albedo, with any
\* type and value, does what setParam of "channel." + b does with the same
\* type and value: the same members afterwards, the same ending, and, when
\* the call is delegated, the same name handed to Object::setParam; map of b
\* returns the pointer, dimensions and pixel type that map of "channel." + b
\* returns.
C11_BareNameAsNamespaced ==
  [][/\ (CallStep /\ ret'.op = "setParam" /\ ret'.id \in BareNames)
          => LET e == SetParamEffect(frame, Namespaced(ret'.id), ret'.type, ret'.val)
             IN /\ frame' = e.f
                /\ ret'.res = e.res
                /\ ret'.res = "delegated" => ret'.out = <<Namespaced(ret'.id)>>
     /\ (CallStep /\ ret'.op = "map" /\ ret'.id \in BareNames)
          => LET e == MapEffect(frame, Namespaced(ret'.id))
             IN /\ ret'.val = e.ptr
                /\ ret'.out = e.out
                /\ ret'.calls = e.calls]_vars

\* C12: over any renders of the frame and its destruction, the engine sees
\* no task handle released twice; a handle not yet released is the one the
\* frame stores (so at most one is unreleased, and a render has released the
\* previous handle, completed or not, when it stores the next); once ~Frame
\* has run every handle has been released exactly once.
C12_TaskHandlesReleasedOnce ==
  /\ \A t \in DOMAIN tasks :
       /\ tasks[t].rel <= 1
       /\ tasks[t].live <=> tasks[t].rel = 0
       /\ tasks[t].rel = 0 => (t = frame.m_future /\ dtorRuns = 0)
  /\ Cardinality({t \in DOMAIN tasks : tasks[t].rel = 0}) <= 1
  /\ dtorRuns > 0 => \A t \in DOMAIN tasks : tasks[t].rel = 1

\* C12 witness: two renders, the task of the first never completed, then the
\* frame was destroyed: both handles have been released once.
C12_Witness ==
  /\ dtorRuns = 1
  /\ Len(tasks) = 2
  /\ ~tasks[1].done
  /\ tasks[1].rel = 1
  /\ tasks[2].rel = 1

\* The engine calls that take the frame buffer handle, and the handle an
\* engine call of the frame was given.
BufferCalls ==
  {"ospResetAccumulation", "ospRenderFrame", "ospMapFrameBuffer",
   "ospUnmapFrameBuffer", "ospGetVariance"}

BufferArg(call) == IF call[1] = "ospUnmapFrameBuffer" THEN call[3] ELSE call[2]

\* C13: no engine call of render (accumulation reset, submission), map, unmap
\* or a variance query is made with a null buffer handle: the buffer handle
\* reaches the engine only after a commit has constructed the buffer.
C13_BufferNeverNull ==
  \A k \in DOMAIN ret.calls :
    ret.calls[k][1] \in BufferCalls => BufferArg(ret.calls[k]) # NULL

\* The frame buffers the engine holds that have not been released.
LiveBuffers(bufs) == {h \in DOMAIN bufs : bufs[h].live}

\* C14: the buffer handle changes only in a commit that finds needsRebuild
\* set; setParam, render, getProperty, map, unmap, the notification thread
\* and a commit with needsRebuild clear leave it as it was.  A commit that
\* reconstructs releases the old handle and then creates the new one, so at
\* most one unreleased buffer exists at any time.
C14_BufferChangesOnlyInRebuild ==
  [][/\ frame'.m_object # frame.m_object
          => /\ CallStep
             /\ ret'.op = "commit"
             /\ frame.m_reconstructOnCommit
             /\ ret'.calls[1] = <<"ospRelease", "m_object", frame.m_object>>
             /\ ret'.calls[2][1] = "ospNewFrameBuffer"
             /\ frame.m_object # NULL => ~fbs'[frame.m_object].live
     /\ (LiveBuffers(fbs') # LiveBuffers(fbs) /\ dtorRuns' = dtorRuns)
          => (ret'.op = "commit" /\ frame.m_reconstructOnCommit)
     /\ Cardinality(LiveBuffers(fbs')) <= 1
     /\ (frame'.m_object # NULL /\ dtorRuns' = 0)
          => LiveBuffers(fbs') = {frame'.m_object}]_vars

\* C14 witness: a second reconstruction has replaced the buffer and a map
\* has followed it: the first buffer is released, the second is the only live
\* one and is the one the frame holds.
C14_Witness ==
  /\ ret.op = "map"
  /\ Len(fbs) = 2
  /\ frame.m_object = 2
  /\ LiveBuffers(fbs) = {2}

\* The engine calls a render of frame f is expected to make up to the
\* submission, in order.
ExpectedRenderCalls(f, modified) ==
  <<<<"ospRelease", "m_future", f.m_future>>>>
    \o (IF modified THEN <<<<"ospResetAccumulation", f.m_object>>>> ELSE <<>>)
    \o <<<<"ospRenderFrame", f.m_object, f.m_renderer, f.m_camera, f.m_world>>>>

\* C15: a render makes its engine calls in this order: the release of the
\* task handle held so far, then the accumulation reset of the buffer exactly
\* if the device reports it was modified, then the submission with the
\* buffer, renderer, camera and world handles; nothing but the wait on the new
\* task follows the submission.  (A render without a renderer, camera or
\* world ends the process before the submission, after the same calls.)
C15_RenderCallOrder ==
  [][/\ (CallStep /\ pc' = "render")
          => pend'.calls = ExpectedRenderCalls(frame, pend'.out[1])
     /\ (CallStep /\ pc' = "idle" /\ ret'.op = "render" /\ ret'.res = "returned")
          => ret'.calls = ExpectedRenderCalls(frame, ret'.out[4])
     /\ (CallStep /\ ret'.op = "render" /\ ret'.res = "crashed")
          => \E modified \in BOOLEAN :
               /\ Len(ret'.calls) = Len(ExpectedRenderCalls(frame, modified)) - 1
               /\ \A k \in DOMAIN ret'.calls :
                    ret'.calls[k] = ExpectedRenderCalls(frame, modified)[k]
     /\ (pc = "render" /\ pc' = "idle")
          => ret'.calls = pend.calls \o <<<<"ospWait", frame.m_future>>>>]_vars

\* C15 witness: a second render of a committed frame, on a modified device,
\* has returned: it released the first task, reset the buffer and submitted.
C15_Witness ==
  /\ ret.op = "render"
  /\ ret.res = "returned"
  /\ ret.out[4]
  /\ frame.m_object # NULL
  /\ ret.calls = <<<<"ospRelease", "m_future", 1>>,
                   <<"ospResetAccumulation", frame.m_object>>,
                   <<"ospRenderFrame", frame.m_object, frame.m_renderer,
                     frame.m_camera, frame.m_world>>>>

\* C16: needsRebuild is false after every commit, also after one whose
\* ospNewFrameBuffer returned no buffer; the commit that directly follows such
\* a commit makes no engine call: it does not try to create the buffer again.
C16_FailedCreateNotRetried ==
  [][/\ (CallStep /\ pc' = "idle" /\ ret'.op = "commit")
          => ~frame'.m_reconstructOnCommit
     /\ (CallStep /\ pc' = "idle" /\ ret'.op = "commit"
           /\ ret.op = "commit" /\ ret.calls # <<>> /\ frame.m_object = NULL)
          => /\ ret'.calls = <<>>
             /\ frame'.m_object = NULL
             /\ fbs' = fbs]_vars

\* C16 witness: setParam of size, a commit whose create failed, a second
\* commit: no buffer exists, none was asked for again, needsRebuild is false.
C16_Witness ==
  /\ budget = MaxCalls - 3
  /\ ret.op = "commit"
  /\ ret.calls = <<>>
  /\ frame.m_size_x # 0
  /\ frame.m_object = NULL
  /\ fbs = <<>>
  /\ ~frame.m_reconstructOnCommit

\* Whether the buffer frame f holds was constructed with the width, height,
\* format and optional channels f has now.
BufferUpToDate(f, bufs) ==
  /\ f.m_object # NULL
  /\ bufs[f.m_object].size_x = f.m_size_x
  /\ bufs[f.m_object].size_y = f.m_size_y
  /\ bufs[f.m_object].format = f.m_format
  /\ bufs[f.m_object].channels = ExpectedMask(f)

\* C17: a commit reconstructs the buffer only if the width, height, format
\* or set of enabled optional channels differs from what the buffer held was
\* constructed with: a commit that finds them equal (after a setParam of size,
\* channel.color or an enabled channel to the value it already has) makes no
\* engine call and keeps the buffer.
C17_RebuildOnlyOnChange ==
  [][(CallStep /\ pc' = "idle" /\ ret'.op = "commit" /\ BufferUpToDate(frame, fbs))
       => /\ ret'.calls = <<>>
          /\ frame'.m_object = frame.m_object
          /\ fbs' = fbs]_vars

\* C19: the width and height map writes together with a non-null pointer, and
\* the pixel type it writes for the color channel, are those the buffer held
\* was constructed with, also after a setParam of size or channel.color that
\* no commit has followed.
C19_MapReportsBuffer ==
  [][(CallStep /\ pc' = "idle" /\ ret'.op = "map" /\ ret'.val # <<>>
        /\ frame.m_object # NULL)
       => /\ ret'.out[1] = fbs[frame.m_object].size_x
          /\ ret'.out[2] = fbs[frame.m_object].size_y
          /\ ret'.id \in {"color", "channel.color"}
               => ret'.out[3] = fbs[frame.m_object].format]_vars

\* The members setParam of channel.depth, channel.albedo and channel.normal
\* assigns, and frame f with other values in them.
ChannelFlags == [d : BOOLEAN, n : BOOLEAN, a : BOOLEAN, r : BOOLEAN]

WithFlags(f, fl) ==
  [f EXCEPT !.m_depthBuffer = fl.d, !.m_normalBuffer = fl.n,
            !.m_albedoBuffer = fl.a, !.m_reconstructOnCommit = fl.r]

FlagsOf(f) ==
  [d |-> f.m_depthBuffer, n |-> f.m_normalBuffer, a |-> f.m_albedoBuffer,
   r |-> f.m_reconstructOnCommit]

\* C18: setParam of channel.depth, channel.albedo or channel.normal changes
\* nothing but the enable flags and needsRebuild: the buffer handle and the
\* engine's buffers (so the mask of the buffer held) stay as they were.  What
\* a later render, map, unmap or property query does, returns and hands to
\* the engine is the same for every value of those flags, and none of them
\* changes the flags: the setParam shows only in the next commit.
C18_ChannelFlagsUnobserved ==
  [][IF ~CallStep THEN FlagsOf(frame') = FlagsOf(frame)
     ELSE IF pc' = "render" THEN
       /\ FlagsOf(frame') = FlagsOf(frame)
       /\ \A fl \in ChannelFlags :
            /\ RenderWaits(WithFlags(frame, fl))
            /\ pend'.calls = ExpectedRenderCalls(WithFlags(frame, fl), pend'.out[1])
     ELSE IF pc' = "getProperty" THEN
       /\ FlagsOf(frame') = FlagsOf(frame)
       /\ \A fl \in ChannelFlags :
            FrameAnswers(WithFlags(frame, fl), pend'.id, pend'.type)
     ELSE IF ret'.op = "setParam" THEN
       ret'.id \in {"channel.depth", "channel.albedo", "channel.normal"}
         => /\ frame' = WithFlags(frame, FlagsOf(frame'))
            /\ fbs' = fbs
            /\ tasks' = tasks
     ELSE IF ret'.op = "commit" THEN TRUE
     ELSE
       /\ FlagsOf(frame') = FlagsOf(frame)
       /\ ret'.op = "map"
            => \A fl \in ChannelFlags :
                 MapEffect(WithFlags(frame, fl), ret'.id)
                   = [ptr |-> ret'.val, out |-> ret'.out, calls |-> ret'.calls]
       /\ ret'.op = "unmap"
            => ret'.calls = <<<<"ospUnmapFrameBuffer", ret'.val, frame.m_object>>>>
       /\ (ret'.op = "render" /\ ret'.res = "returned")
            => \A fl \in ChannelFlags :
                 /\ ~RenderWaits(WithFlags(frame, fl))
                 /\ ret'.calls = ExpectedRenderCalls(WithFlags(frame, fl), ret'.out[4])
       /\ ret'.op = "getProperty"
            => \A fl \in ChannelFlags :
                 /\ FrameAnswers(WithFlags(frame, fl), ret'.id, ret'.type)
                      <=> ret'.out[1] = "Frame"
                 /\ ret'.out[1] = "Frame"
                      => ret'.calls = <<PropertyCall(WithFlags(frame, fl), ret'.id)>>]_vars

\* C18 witness: on a frame whose buffer was constructed without depth,
\* channel.depth was set and no commit followed; a map of channel.depth has
\* been handed to the engine with the buffer as it was.
C18_Witness ==
  /\ ret.op = "map"
  /\ ret.id = "channel.depth"
  /\ ret.res = "pointer"
  /\ frame.m_depthBuffer
  /\ frame.m_reconstructOnCommit
  /\ frame.m_object # NULL
  /\ "OSP_FB_DEPTH" \notin fbs[frame.m_object].channels

\* C20: while the callback of a render runs on its thread and the client
\* renders again, no query the callback makes hands a released task handle
\* to the engine, and whenever a notification thread is running the task
\* handle the frame stores is null or unreleased.
C20_NoReleasedTaskHandle ==
  /\ \A i \in DOMAIN thr :
       (thr[i].q # <<>>
          /\ thr[i].q[1][1] \in {"ospGetTaskDuration", "ospGetProgress"})
         => thr[i].q[2]
  /\ (\E i \in DOMAIN thr : thr[i].pc \in {"start", "loaded", "called"})
       => (frame.m_future = NULL \/ tasks[frame.m_future].live)

====
